---- MODULE Spec2Model ----
(***************************************************************************)
(* Webcam recorder (src/App.py): a Streamlit script that is re-executed    *)
(* from the top on every user interaction.  st.session_state is the only   *)
(* state that survives a script run; the WebRTC transport calls            *)
(* video_frame_callback once per captured frame.                           *)
(*                                                                         *)
(* One step of the model is one complete script run (with at most one      *)
(* button click pending), one frame delivery, one change of the            *)
(* transport's playing state, or one tick of the wall clock.               *)
(***************************************************************************)
EXTENDS Integers, Sequences, FiniteSets, TLC

\* ------------------------------------------------------------- bounds
\* Frames the transport delivers in one behaviour.
MaxFrames == 3
\* Largest value of the wall clock time.time().
MaxTime == 2

\* ------------------------------------------------------------- values
\* Python's None, and a value that is not None.
None == <<>>
Some(v) == <<v>>

\* The values st.session_state.status takes in the script.
StatusReady == "Ready"
StatusRecording == "Recording"
StatusProcessing == "Processing..."
StatusUploaded == "Uploaded!"

\* The names bound in the script's global namespace by its import statements.
ModuleGlobals ==
    {"st", "boto3", "av", "time", "uuid", "NoCredentialsError", "ClientError",
     "webrtc_streamer", "RTCConfiguration", "WebRtcMode"}

\* The 8-hex-character suffixes uuid.uuid4().hex[:8] is drawn from.
HexSuffixes == {"0a1b2c3d", "deadbeef"}

\* What the S3 client does on one upload: put_object returns, put_object
\* raises NoCredentialsError, ClientError, EndpointConnectionError (botocore's
\* exception for a failed connection: an Exception that is neither of the
\* other two) or some other Exception, or get_s3_client() raises ("client")
\* before put_object is reached.
UploadOutcomes ==
    {"ok", "NoCredentialsError", "ClientError", "EndpointConnectionError",
     "Exception", "client"}

VARIABLES
    session_state,  \* st.session_state: a function from the keys present to values
    playing,        \* webrtc_ctx.state.playing
    now,            \* the wall clock, time.time()
    delivered,      \* number of frames the transport has delivered so far
    last,           \* observation of the latest step (what ran, what it called)
    secrets,        \* the keys present in st.secrets
    page,           \* the buttons the latest script run rendered
    cb,             \* the transport thread inside video_frame_callback
    ui              \* the script thread inside a button handler

vars == <<session_state, playing, now, delivered, last, secrets, page, cb, ui>>

\* ------------------------------------------------- st.session_state
Has(ss, k) == k \in DOMAIN ss

SetKey(ss, k, v) == [x \in (DOMAIN ss) \cup {k} |-> IF x = k THEN v ELSE ss[x]]

DelKey(ss, k) == [x \in (DOMAIN ss) \ {k} |-> ss[x]]

EmptySessionState == [x \in {} |-> None]

\* Lines 23-30: every key but "frames" gets its default when absent.
init_session_state(ss) ==
    LET s1 == IF Has(ss, "recording") THEN ss ELSE SetKey(ss, "recording", FALSE)
        s2 == IF Has(s1, "recorded_video") THEN s1 ELSE SetKey(s1, "recorded_video", None)
        s3 == IF Has(s2, "status") THEN s2 ELSE SetKey(s2, "status", StatusReady)
        s4 == IF Has(s3, "start_time") THEN s3 ELSE SetKey(s3, "start_time", None)
    IN  s4

\* ------------------------------------------------- frames and payloads
\* A frame is [id, ok, t]: its arrival number, whether
\* frame.reformat(width=1280, height=720) succeeds on it, and the time of the
\* wall clock at which the transport captured it.

\* The callback with the test of the recording flag left out.
video_frame_callback_unguarded(ss, frame) ==
    LET s1 == IF ~Has(ss, "frames") THEN SetKey(ss, "frames", <<>>) ELSE ss
    IN  SetKey(s1, "frames", Append(s1["frames"], frame))

\* Lines 43-49: the transport's per-frame callback.
video_frame_callback(ss, frame) ==
    IF ss["recording"]
    THEN LET s1 == IF ~Has(ss, "frames") THEN SetKey(ss, "frames", <<>>) ELSE ss
         IN  SetKey(s1, "frames", Append(s1["frames"], frame))
    ELSE ss

\* What one script run did: the session state it leaves, the handler whose
\* body it entered, the exception that ended it ("none" when it ran to its
\* end or to st.rerun()), the frames fed to stream.encode, the calls of
\* s3.put_object and the st.error / st.success messages shown.
Result(ss, handler, exc, encoded, put_calls, msgs) ==
    [ss |-> ss, handler |-> handler, exc |-> exc, encoded |-> encoded,
     put_calls |-> put_calls, msgs |-> msgs]

\* Line 55: the object key built from the clock and the uuid suffix.
file_key(t, suffix) ==
    [prefix |-> "recordings/webcam-", timestamp |-> t, suffix |-> suffix, ext |-> "mkv"]

\* The messages of lines 69, 73, 75 and 77.
MsgSuccess == "success: Video saved"
MsgCredentials == "error: AWS credentials invalid"
MsgS3Error == "error: S3 Error"
MsgUploadFailed == "error: Upload failed"

\* The call of s3.put_object at lines 58-63, with what it raised.
put_object(video_bytes, t, suffix, outcome) ==
    [Bucket |-> "S3_BUCKET", Key |-> file_key(t, suffix), Body |-> video_bytes,
     ContentType |-> "video/x-matroska",
     raised |-> IF outcome = "ok" THEN "none" ELSE outcome]

\* upload_to_s3 without its last clause, except Exception (lines 76-77): what
\* the first two clauses do not match leaves the function.
upload_to_s3_two_clauses(ss, video_bytes, t, suffix, outcome) ==
    LET call == put_object(video_bytes, t, suffix, outcome)
    IN  CASE outcome = "ok" ->
               [ss |-> SetKey(ss, "status", StatusUploaded), put_calls |-> <<call>>,
                msgs |-> <<MsgSuccess>>, exc |-> "none"]
          [] outcome = "NoCredentialsError" ->
               [ss |-> ss, put_calls |-> <<call>>, msgs |-> <<MsgCredentials>>,
                exc |-> "none"]
          [] outcome = "ClientError" ->
               [ss |-> ss, put_calls |-> <<call>>, msgs |-> <<MsgS3Error>>, exc |-> "none"]
          [] outcome = "client" ->
               [ss |-> ss, put_calls |-> <<>>, msgs |-> <<>>, exc |-> "Exception"]
          [] OTHER ->
               [ss |-> ss, put_calls |-> <<call>>, msgs |-> <<>>, exc |-> outcome]

\* Lines 51-77: one put_object call inside a try whose three except clauses
\* are tried in order, the last catching every Exception; only a put_object
\* that returns changes session state (line 68).  exc is the exception that
\* leaves the function.
upload_to_s3(ss, video_bytes, t, suffix, outcome) ==
    LET call == put_object(video_bytes, t, suffix, outcome)
    IN  CASE outcome = "client" ->
               [ss |-> ss, put_calls |-> <<>>, msgs |-> <<MsgUploadFailed>>, exc |-> "none"]
          [] outcome = "ok" ->
               [ss |-> SetKey(ss, "status", StatusUploaded), put_calls |-> <<call>>,
                msgs |-> <<MsgSuccess>>, exc |-> "none"]
          [] outcome = "NoCredentialsError" ->
               [ss |-> ss, put_calls |-> <<call>>, msgs |-> <<MsgCredentials>>,
                exc |-> "none"]
          [] outcome = "ClientError" ->
               [ss |-> ss, put_calls |-> <<call>>, msgs |-> <<MsgS3Error>>, exc |-> "none"]
          [] OTHER ->
               [ss |-> ss, put_calls |-> <<call>>, msgs |-> <<MsgUploadFailed>>,
                exc |-> "none"]

\* Lines 130-134: the frames of fs up to the first one reformat fails on.
RECURSIVE ReformattedPrefix(_)
ReformattedPrefix(fs) ==
    IF fs = <<>> \/ ~Head(fs).ok THEN <<>>
    ELSE <<Head(fs)>> \o ReformattedPrefix(Tail(fs))

\* A script run with no button clicked after st.rerun(): lines 23-30, then the
\* status panel of lines 103-107, which subtracts start_time from the clock.
PanelRaises(ss) == ss["status"] = StatusRecording /\ ss["start_time"] = None

Rerun(r) ==
    LET s0 == init_session_state(r.ss)
    IN  [r EXCEPT !.ss = s0, !.exc = IF PanelRaises(s0) THEN "TypeError" ELSE "none"]

\* The Start button rendered whenever the transport plays.
StartRendered_any_flag(ss, pl) == pl

\* Line 110: the condition under which the Start button is rendered.
StartRendered(ss, pl) == pl /\ ~ss["recording"]

\* The Stop button rendered by a plain else branch.
StopRendered_else(ss, pl) == ~(pl /\ ~ss["recording"])

\* Line 117: the condition under which the Stop button is rendered.
StopRendered(ss, pl) == ~StartRendered(ss, pl) /\ ss["recording"]

\* The Start handler with the assignment of status left out.
start_handler_no_status(ss, t) ==
    LET s1 == SetKey(ss, "recording", TRUE)
        s2 == SetKey(s1, "start_time", Some(t))
        s4 == SetKey(s2, "frames", <<>>)
    IN  [ss |-> s4, handler |-> "start", exc |-> "none", encoded |-> <<>>,
         put_calls |-> <<>>, msgs |-> <<>>]

\* The Start handler with the assignment of start_time left out.
start_handler_no_start_time(ss, t) ==
    LET s1 == SetKey(ss, "recording", TRUE)
        s3 == SetKey(s1, "status", StatusRecording)
        s4 == SetKey(s3, "frames", <<>>)
    IN  [ss |-> s4, handler |-> "start", exc |-> "none", encoded |-> <<>>,
         put_calls |-> <<>>, msgs |-> <<>>]

\* Lines 112-116.
start_handler(ss, t) ==
    LET s1 == SetKey(ss, "recording", TRUE)
        s2 == SetKey(s1, "start_time", Some(t))
        s3 == SetKey(s2, "status", StatusRecording)
        s4 == SetKey(s3, "frames", <<>>)
    IN  Rerun(Result(s4, "start", "none", <<>>, <<>>, <<>>))

\* The Stop handler with the test for an empty buffer left out: it goes on to
\* line 124 whatever the buffer holds.
stop_handler_no_empty_test(ss, t, suffix, outcome) ==
    LET s1 == SetKey(ss, "recording", FALSE)
        s2 == SetKey(s1, "status", StatusProcessing)
    IN  [ss |-> s2, handler |-> "stop", exc |-> "NameError", encoded |-> <<>>,
         put_calls |-> <<>>, msgs |-> <<>>]

\* Lines 125-142, what follows av.open in the Stop handler: the frame loop,
\* which an exception of frame.reformat leaves at once, the upload, the
\* release of the buffer and st.rerun().
encode_and_upload(s2, t, suffix, outcome) ==
    LET fed == ReformattedPrefix(s2["frames"])
    IN  IF fed # s2["frames"]
        THEN Result(s2, "stop", "ReformatError", fed, <<>>, <<>>)
        ELSE LET s3 == SetKey(s2, "recorded_video", Some(fed))
                 up == upload_to_s3(s3, fed, t, suffix, outcome)
                 s4 == DelKey(up.ss, "frames")
             IN  IF up.exc # "none"
                 THEN Result(up.ss, "stop", up.exc, fed, up.put_calls, up.msgs)
                 ELSE Rerun(Result(s4, "stop", "none", fed, up.put_calls, up.msgs))

\* Lines 119-142.  Line 124 evaluates the name io, which no import binds.
stop_handler(ss, t, suffix, outcome) ==
    LET s1 == SetKey(ss, "recording", FALSE)
        s2 == SetKey(s1, "status", StatusProcessing)
    IN  IF Has(s2, "frames") /\ s2["frames"] # <<>>
        THEN IF "io" \notin ModuleGlobals
             THEN Result(s2, "stop", "NameError", <<>>, <<>>, <<>>)
             ELSE encode_and_upload(s2, t, suffix, outcome)
        ELSE Rerun(Result(s2, "stop", "none", <<>>, <<>>, <<>>))

\* Line 146: the keys the New Recording handler deletes.
SessionKeys == {"recording", "recorded_video", "status", "start_time", "frames"}

\* The reset handler with "frames" missing from its list of keys.
reset_handler_keeps_frames(ss) ==
    [ss |-> init_session_state([x \in (DOMAIN ss) \ (SessionKeys \ {"frames"}) |-> ss[x]]),
     handler |-> "reset", exc |-> "none", encoded |-> <<>>, put_calls |-> <<>>,
     msgs |-> <<>>]

\* Lines 145-149: every session key present is deleted, then st.rerun().
reset_handler(ss) ==
    Rerun(Result([x \in (DOMAIN ss) \ SessionKeys |-> ss[x]], "reset", "none", <<>>, <<>>, <<>>))

\* One execution of the script from line 23 to its end, to an uncaught
\* exception or to st.rerun() and the run that follows it.
ScriptRun(ss, click, pl, t, suffix, outcome) ==
    LET s0 == init_session_state(ss)
    IN  IF PanelRaises(s0)
        THEN Result(s0, "none", "TypeError", <<>>, <<>>, <<>>)
        ELSE IF StartRendered(s0, pl) /\ click = "start"
        THEN start_handler(s0, t)
        ELSE IF StopRendered(s0, pl) /\ click = "stop"
        THEN stop_handler(s0, t, suffix, outcome)
        ELSE IF click = "reset"
        THEN reset_handler(s0)
        ELSE Result(s0, "none", "none", <<>>, <<>>, <<>>)

\* Lines 10-17: the options read from st.secrets, three by subscript (KeyError
\* when absent) and AWS_REGION by get with a default.
SecretKeys == {"AWS_ACCESS_KEY_ID", "AWS_SECRET_ACCESS_KEY", "AWS_REGION", "S3_BUCKET"}

RequiredSecrets == {"AWS_ACCESS_KEY_ID", "AWS_SECRET_ACCESS_KEY", "S3_BUCKET"}

\* The secrets loaded without the subscript of S3_BUCKET (line 14).
load_secrets_no_bucket(sec) ==
    IF "AWS_ACCESS_KEY_ID" \notin sec \/ "AWS_SECRET_ACCESS_KEY" \notin sec
    THEN [halt |-> TRUE, AWS_REGION |-> None]
    ELSE [halt |-> FALSE,
          AWS_REGION |-> Some(IF "AWS_REGION" \in sec THEN "configured" ELSE "us-east-1")]

load_secrets(sec) ==
    IF "AWS_ACCESS_KEY_ID" \notin sec \/ "AWS_SECRET_ACCESS_KEY" \notin sec
    THEN [halt |-> TRUE, AWS_REGION |-> None]
    ELSE LET region == IF "AWS_REGION" \in sec THEN "configured" ELSE "us-east-1"
         IN  IF "S3_BUCKET" \notin sec
             THEN [halt |-> TRUE, AWS_REGION |-> Some(region)]
             ELSE [halt |-> FALSE, AWS_REGION |-> Some(region)]

\* The whole script, lines 10-149: st.stop() at line 17 ends the run before
\* anything else is executed.
Script(sec, ss, click, pl, t, suffix, outcome) ==
    IF load_secrets(sec).halt
    THEN Result(ss, "none", "st.stop", <<>>, <<>>, <<>>)
    ELSE ScriptRun(ss, click, pl, t, suffix, outcome)

\* Lines 109-145: the buttons a run that reaches the end of the script renders.
Controls(ss, pl) ==
    (IF StartRendered(ss, pl) THEN {"start"} ELSE {})
        \cup (IF StopRendered(ss, pl) THEN {"stop"} ELSE {})
        \cup {"reset"}

\* The buttons on the page after a run: a run ended by an exception inside
\* the Stop handler has rendered the Stop button (line 118) and never reaches
\* line 145; a run ended at line 17 or in the status panel has rendered none.
PageOf(r, pl) ==
    IF r.exc = "none" THEN Controls(r.ss, pl)
    ELSE IF r.handler = "stop" THEN {"stop"}
    ELSE {}

\* The transport thread is outside video_frame_callback.
CbIdle == [pc |-> "idle", frame |-> None]

\* ------------------------------------------------------------- actions
\* The observation of a step: what ran, the click it served, the session
\* state it started from, and what the run did.
Observe(op, click, before, r, frame) ==
    [op |-> op, click |-> click, before |-> before, handler |-> r.handler,
     exc |-> r.exc, encoded |-> r.encoded, put_calls |-> r.put_calls,
     msgs |-> r.msgs, frame |-> frame, after |-> r.ss]

Idle(ss) == Result(ss, "none", "none", <<>>, <<>>, <<>>)

\* The state after the first script run of a new browser session.
Init ==
    /\ session_state = init_session_state(EmptySessionState)
    /\ playing = FALSE
    /\ now = 0
    /\ delivered = 0
    /\ last = Observe("run", "none", EmptySessionState, Idle(session_state), None)
    /\ secrets = SecretKeys
    /\ page = Controls(session_state, playing)
    /\ cb = CbIdle
    /\ ui = "idle"

\* A click on Start Recording arrives and the script runs.
StartClick ==
    /\ ui = "idle"
    /\ \E r \in {Script(secrets, session_state, "start", playing, now, "0a1b2c3d", "ok")} :
        /\ session_state' = r.ss
        /\ last' = Observe("run", "start", session_state, r, None)
        /\ page' = PageOf(r, playing)
    /\ UNCHANGED <<playing, now, delivered, secrets, cb, ui>>

\* A click on Stop & Upload arrives and the script runs; the uuid suffix and
\* what S3 answers are the environment's choice.
StopClick ==
    /\ ui = "idle"
    /\ \E suffix \in HexSuffixes, outcome \in UploadOutcomes :
        LET r == Script(secrets, session_state, "stop", playing, now, suffix, outcome)
        IN  /\ session_state' = r.ss
            /\ last' = Observe("run", "stop", session_state, r, None)
            /\ page' = PageOf(r, playing)
    /\ UNCHANGED <<playing, now, delivered, secrets, cb, ui>>

\* A click on New Recording arrives and the script runs.
ResetClick ==
    /\ ui = "idle"
    /\ \E r \in {Script(secrets, session_state, "reset", playing, now, "0a1b2c3d", "ok")} :
        /\ session_state' = r.ss
        /\ last' = Observe("run", "reset", session_state, r, None)
        /\ page' = PageOf(r, playing)
    /\ UNCHANGED <<playing, now, delivered, secrets, cb, ui>>

\* The transport starts or stops playing; the component's state change
\* makes the script run with no click.  The component exists only when the
\* script gets past line 17 to webrtc_streamer (line 85).
TransportChange ==
    /\ ui = "idle"
    /\ ~load_secrets(secrets).halt
    /\ playing' = ~playing
    /\ \E r \in {Script(secrets, session_state, "none", ~playing, now, "0a1b2c3d", "ok")} :
        /\ session_state' = r.ss
        /\ last' = Observe("transport", "none", session_state, r, None)
        /\ page' = PageOf(r, ~playing)
    /\ UNCHANGED <<now, delivered, secrets, cb, ui>>

\* The transport delivers the next frame to video_frame_callback.
FrameDelivery ==
    /\ playing
    /\ cb.pc = "idle"
    /\ ui = "idle"
    /\ delivered < MaxFrames
    /\ \E ok \in BOOLEAN :
        LET frame == [id |-> delivered + 1, ok |-> ok, t |-> now]
        IN  /\ session_state' = video_frame_callback(session_state, frame)
            /\ last' = Observe("frame", "none", session_state, Idle(session_state'),
                               Some(frame))
    /\ delivered' = delivered + 1
    /\ UNCHANGED <<playing, now, secrets, page, cb, ui>>

\* The wall clock advances.
Tick ==
    /\ now < MaxTime
    /\ now' = now + 1
    /\ UNCHANGED <<session_state, playing, delivered, last, secrets, page, cb, ui>>

Next ==
    \/ StartClick
    \/ StopClick
    \/ ResetClick
    \/ TransportChange
    \/ FrameDelivery
    \/ Tick

Spec == Init /\ [][Next]_vars

\* A new browser session under any configuration: the state after the first
\* script run, whichever of the four options st.secrets holds.
InitStartup ==
    /\ secrets \in SUBSET SecretKeys
    /\ playing = FALSE
    /\ now = 0
    /\ delivered = 0
    /\ cb = CbIdle
    /\ ui = "idle"
    /\ \E r \in {Script(secrets, EmptySessionState, "none", FALSE, 0, "0a1b2c3d", "ok")} :
        /\ session_state = r.ss
        /\ last = Observe("run", "none", EmptySessionState, r, None)
        /\ page = PageOf(r, FALSE)

SpecStartup == InitStartup /\ [][Next]_vars

\* The frame buffers of up to MaxFrames frames in arrival order.
FrameBuffers ==
    UNION {[1..n -> BOOLEAN] : n \in 1..MaxFrames}

BufferOf(oks, t0) == [i \in 1..Len(oks) |-> [id |-> i, ok |-> oks[i], t |-> t0]]

\* The Stop handler at line 125 with a non-empty buffer: the state lines
\* 119-123 leave and av.open would return into.  As the script stands line
\* 124 raises NameError, so lines 125-142 and upload_to_s3 run in no
\* behaviour of Spec; SpecFlush checks what they do as they are written.
InitFlush ==
    /\ secrets = SecretKeys
    /\ playing \in BOOLEAN
    /\ now \in 0..MaxTime
    /\ cb = CbIdle
    /\ ui = "line 125"
    /\ \E oks \in FrameBuffers, t0 \in 0..MaxTime :
        LET before == [recording |-> TRUE, recorded_video |-> None,
                       status |-> StatusRecording, start_time |-> Some(t0),
                       frames |-> BufferOf(oks, t0)]
            s2 == SetKey(SetKey(before, "recording", FALSE), "status", StatusProcessing)
        IN  /\ t0 <= now
            /\ session_state = s2
            /\ delivered = Len(oks)
            /\ page = Controls(before, playing)
            /\ last = Observe("run", "stop", before, Result(s2, "stop", "none", <<>>, <<>>, <<>>), None)

\* Lines 125-142 run; the uuid suffix and what S3 answers are the
\* environment's choice.
FlushFromLine125 ==
    /\ ui = "line 125"
    /\ \E suffix \in HexSuffixes, outcome \in UploadOutcomes :
        LET r == encode_and_upload(session_state, now, suffix, outcome)
        IN  /\ session_state' = r.ss
            /\ last' = Observe("flush", "stop", session_state, r, None)
            /\ page' = PageOf(r, playing)
    /\ ui' = "idle"
    /\ UNCHANGED <<playing, now, delivered, secrets, cb>>

NextFlush ==
    \/ FlushFromLine125
    \/ Next

SpecFlush == InitFlush /\ [][NextFlush]_vars

\* ---------------------------------------------- the callback's thread
\* webrtc_streamer calls video_frame_callback on the transport's thread while
\* the script thread runs the handlers; neither takes a lock.  In SpecRace
\* each access to st.session_state is one step of its thread.

\* Line 44: the transport delivers a frame and the callback reads the flag
\* (AttributeError, which ends the callback, when the key is deleted).
CallbackTest ==
    /\ playing
    /\ delivered < MaxFrames
    /\ cb.pc = "idle"
    /\ \E ok \in BOOLEAN :
        LET frame == [id |-> delivered + 1, ok |-> ok, t |-> now]
        IN  IF Has(session_state, "recording") /\ session_state["recording"]
            THEN /\ cb' = [pc |-> "line 46", frame |-> Some(frame)]
                 /\ last' = last
            ELSE /\ cb' = CbIdle
                 /\ last' = Observe("frame", "none", session_state, Idle(session_state),
                                    Some(frame))
    /\ delivered' = delivered + 1
    /\ UNCHANGED <<session_state, playing, now, secrets, page, ui>>

\* Lines 46-47: the callback creates the buffer when the key is absent.
CallbackEnsure ==
    /\ cb.pc = "line 46"
    /\ session_state' = IF Has(session_state, "frames") THEN session_state
                        ELSE SetKey(session_state, "frames", <<>>)
    /\ cb' = [cb EXCEPT !.pc = "line 48"]
    /\ UNCHANGED <<playing, now, delivered, last, secrets, page, ui>>

\* Line 48: the callback reads the buffer and appends the frame
\* (AttributeError when the key was deleted in between).
CallbackAppend ==
    /\ cb.pc = "line 48"
    /\ IF Has(session_state, "frames")
       THEN /\ session_state' =
                    SetKey(session_state, "frames", Append(session_state["frames"], cb.frame[1]))
            /\ last' = Observe("append", "none", session_state, Idle(session_state'), cb.frame)
       ELSE /\ session_state' = session_state
            /\ last' = Observe("frame", "none", session_state,
                               Result(session_state, "none", "AttributeError", <<>>, <<>>, <<>>),
                               cb.frame)
    /\ cb' = CbIdle
    /\ UNCHANGED <<playing, now, delivered, secrets, page, ui>>

\* Line 119: a click on the rendered Stop button is served.
RaceStopFlag ==
    /\ ui = "idle"
    /\ StopRendered(session_state, playing)
    /\ session_state' = SetKey(session_state, "recording", FALSE)
    /\ ui' = "line 120"
    /\ UNCHANGED <<playing, now, delivered, last, secrets, page, cb>>

\* Line 120.
RaceStopStatus ==
    /\ ui = "line 120"
    /\ session_state' = SetKey(session_state, "status", StatusProcessing)
    /\ ui' = "line 123"
    /\ UNCHANGED <<playing, now, delivered, last, secrets, page, cb>>

\* Lines 123-142: the rest of the Stop handler (which leaves the flag and the
\* status as lines 119-120 set them).
RaceStopFlush ==
    /\ ui = "line 123"
    /\ \E suffix \in HexSuffixes, outcome \in UploadOutcomes :
        LET r == stop_handler(session_state, now, suffix, outcome)
        IN  /\ session_state' = r.ss
            /\ last' = Observe("run", "stop", session_state, r, None)
            /\ page' = PageOf(r, playing)
    /\ ui' = "idle"
    /\ UNCHANGED <<playing, now, delivered, secrets, cb>>

\* Line 146: the keys in the order the New Recording handler deletes them.
KeyOrder == <<"recording", "recorded_video", "status", "start_time", "frames">>

ResetPc == <<"idle", "reset 2", "reset 3", "reset 4", "reset 5", "line 149">>

\* Lines 147-148: a click on New Recording is served, one key deleted per step.
RaceResetDel ==
    /\ \E i \in 1..Len(KeyOrder) :
        /\ ui = ResetPc[i]
        /\ i = 1 => "reset" \in page
        /\ session_state' = [x \in (DOMAIN session_state) \ {KeyOrder[i]} |-> session_state[x]]
        /\ ui' = ResetPc[i + 1]
    /\ UNCHANGED <<playing, now, delivered, last, secrets, page, cb>>

\* Line 149: st.rerun() and the run that follows it.
RaceResetRerun ==
    /\ ui = "line 149"
    /\ \E r \in {Rerun(Result(session_state, "reset", "none", <<>>, <<>>, <<>>))} :
        /\ session_state' = r.ss
        /\ last' = Observe("run", "reset", session_state, r, None)
        /\ page' = PageOf(r, playing)
    /\ ui' = "idle"
    /\ UNCHANGED <<playing, now, delivered, secrets, cb>>

NextRace ==
    \/ StartClick
    \/ TransportChange
    \/ Tick
    \/ CallbackTest
    \/ CallbackEnsure
    \/ CallbackAppend
    \/ RaceStopFlag
    \/ RaceStopStatus
    \/ RaceStopFlush
    \/ RaceResetDel
    \/ RaceResetRerun

SpecRace == Init /\ [][NextRace]_vars

TypeOK ==
    /\ DOMAIN session_state \subseteq SessionKeys
    /\ {"recording", "recorded_video", "status", "start_time"} \subseteq DOMAIN session_state
    /\ session_state["recording"] \in BOOLEAN
    /\ session_state["status"] \in {StatusReady, StatusRecording, StatusProcessing, StatusUploaded}
    /\ playing \in BOOLEAN
    /\ now \in 0..MaxTime
    /\ delivered \in 0..MaxFrames
    /\ secrets = SecretKeys
    /\ page \subseteq {"start", "stop", "reset"}
    /\ cb = CbIdle
    /\ ui = "idle"

\* ------------------------------------------------------------- claims
\* The recorder's state as the status variable encodes it.
Recording(ss) == ss["status"] = StatusRecording

Processing(ss) == ss["status"] = StatusProcessing

Ready(ss) == ss["status"] = StatusReady

\* The frame buffer, empty when the key is absent.
FramesOf(ss) == IF Has(ss, "frames") THEN ss["frames"] ELSE <<>>

\* The latest step was a script run serving a click on the given button.
Clicked(click) == last.op = "run" /\ last.click = click

\* C1: a frame delivered while the recorder is not Recording changes no
\* session variable; a frame delivered while it is Recording is appended at
\* the end of the buffer and nothing else changes.
C1_FrameEffect ==
    last.op = "frame" =>
        IF Recording(last.before)
        THEN /\ DOMAIN session_state = DOMAIN last.before \cup {"frames"}
             /\ session_state["frames"] = Append(FramesOf(last.before), last.frame[1])
             /\ \A k \in DOMAIN last.before \ {"frames"} : session_state[k] = last.before[k]
        ELSE session_state = last.before

\* A frame was dropped while an earlier session's frames were still held.
C1_Witness ==
    /\ last.op = "frame"
    /\ ~Recording(last.before)
    /\ FramesOf(session_state) # <<>>
    /\ delivered > Len(FramesOf(session_state))

\* C2: at the end of every script run the recording flag is True exactly
\* when status is "Recording", and status is Ready, Recording or Processing.
C2_OneState ==
    /\ session_state["recording"] = Recording(session_state)
    /\ session_state["status"] \in {StatusReady, StatusRecording, StatusProcessing}

\* A stop was accepted with frames in the buffer.
C2_Witness ==
    /\ Clicked("stop")
    /\ last.handler = "stop"
    /\ FramesOf(last.before) # <<>>
    /\ Processing(session_state)
    /\ ~session_state["recording"]

\* C3: a Start click served while the recorder is Recording enters no
\* handler and leaves flag, status, start time and buffer as they were.
C3_StartRejected ==
    Clicked("start") /\ Recording(last.before) =>
        /\ last.handler = "none"
        /\ session_state = last.before

\* Start was clicked in a running session that holds frames, at a later time
\* than the session's start.
C3_Witness ==
    /\ Clicked("start")
    /\ Recording(last.before)
    /\ playing
    /\ FramesOf(last.before) # <<>>
    /\ last.before["start_time"] # Some(now)

\* C4 (as claimed): a Start click served while status is Processing is
\* rejected, the recorder does not move to Recording.
C4_StartRejectedInProcessing ==
    Clicked("start") /\ Processing(last.before) =>
        /\ last.handler = "none"
        /\ ~Recording(session_state)

\* C5: a Stop click served while the recorder is not Recording changes no
\* session variable and calls neither encoder nor uploader; served while
\* Recording it sets the flag False and status to Processing.
C5_StopGuard ==
    Clicked("stop") =>
        IF Recording(last.before)
        THEN /\ last.handler = "stop"
             /\ session_state["recording"] = FALSE
             /\ Processing(session_state)
        ELSE /\ last.handler = "none"
             /\ session_state = last.before
             /\ last.encoded = <<>>
             /\ last.put_calls = <<>>

\* Stop was clicked a second time, after a stop that left frames behind.
C5_Witness ==
    /\ Clicked("stop")
    /\ Processing(last.before)
    /\ FramesOf(last.before) # <<>>
    /\ last.handler = "none"

\* C6 (as claimed): when the Stop handler has run to its end the recorder
\* is Ready.
C6_ReadyAfterFlush ==
    Clicked("stop") /\ last.handler = "stop" /\ last.exc = "none" =>
        Ready(session_state)

\* C7: a Stop accepted with an empty or absent buffer feeds nothing to the
\* encoder, makes no put call and ends without an exception.
C7_EmptyStop ==
    Clicked("stop") /\ last.handler = "stop" /\ FramesOf(last.before) = <<>> =>
        /\ last.encoded = <<>>
        /\ last.put_calls = <<>>
        /\ last.exc = "none"

\* A session was started and stopped with frames arriving only before it.
C7_Witness ==
    /\ Clicked("stop")
    /\ last.handler = "stop"
    /\ Recording(last.before)
    /\ FramesOf(last.before) = <<>>
    /\ delivered > 0

\* The form recordings/webcam-<timestamp>-<8 hex chars>.<ext> of a key.
KeyWellFormed(key) ==
    /\ key.prefix = "recordings/webcam-"
    /\ key.timestamp \in Nat
    /\ key.suffix \in HexSuffixes
    /\ key.ext \in {"mkv"}

\* C8 (as claimed): a Stop accepted with a non-empty buffer makes exactly
\* one put call, with a well-formed key; no other step makes a put call.
C8_FlushOnce ==
    IF Clicked("stop") /\ last.handler = "stop" /\ FramesOf(last.before) # <<>>
    THEN /\ Len(last.put_calls) = 1
         /\ KeyWellFormed(last.put_calls[1].Key)
    ELSE last.put_calls = <<>>

\* C9 (as claimed): after the Stop handler has run, no frames are held in
\* session state.
C9_BufferReleased ==
    Clicked("stop") /\ last.handler = "stop" => FramesOf(session_state) = <<>>

\* C10: a New Recording click is served in every state and yields the
\* initial session state; a second click in a row changes nothing.
C10_Reset ==
    Clicked("reset") =>
        /\ last.handler = "reset"
        /\ last.exc = "none"
        /\ session_state = init_session_state(EmptySessionState)
        /\ ~Has(session_state, "frames")
        /\ reset_handler(session_state).ss = session_state

\* New Recording was clicked while the recorder held frames and a start time.
C10_Witness ==
    /\ Clicked("reset")
    /\ last.handler = "reset"
    /\ FramesOf(last.before) # <<>>
    /\ last.before["start_time"] # None
    /\ last.before["recording"]

\* C16: with AWS_ACCESS_KEY_ID, AWS_SECRET_ACCESS_KEY or S3_BUCKET missing,
\* every script run stops at line 17: session state is never initialised, no
\* button is rendered, the transport never plays and no frame is delivered;
\* with only AWS_REGION missing the script runs and the region is us-east-1.
C16_StartupHalt ==
    IF RequiredSecrets \subseteq secrets
    THEN /\ {"recording", "recorded_video", "status", "start_time"} \subseteq DOMAIN session_state
         /\ last.exc # "st.stop"
         /\ "AWS_REGION" \notin secrets => load_secrets(secrets).AWS_REGION = Some("us-east-1")
    ELSE /\ session_state = EmptySessionState
         /\ page = {}
         /\ last.handler = "none"
         /\ last.exc = "st.stop"
         /\ ~playing
         /\ delivered = 0

\* Start was clicked in a session configured without S3_BUCKET.
C16_Witness ==
    /\ secrets = SecretKeys \ {"S3_BUCKET"}
    /\ Clicked("start")

\* C19: whenever status is "Recording" the start time is set, and not later
\* than the clock, so the status panel never subtracts None from the clock:
\* no script run ends with the TypeError of line 104.
C19_ElapsedValid ==
    /\ Recording(session_state) =>
            /\ session_state["start_time"] # None
            /\ session_state["start_time"][1] <= now
    /\ last.exc # "TypeError"

\* A script run rendered the elapsed time of a session started earlier.
C19_Witness ==
    /\ last.op \in {"run", "transport"}
    /\ Has(last.before, "status")
    /\ Recording(last.before)
    /\ Recording(session_state)
    /\ last.exc = "none"
    /\ session_state["start_time"] # Some(now)

\* C15 (as claimed): a Stop handler ended by an exception of the encode step
\* has made no put call, holds no frames any more and has not left the
\* recorder in Processing.
C15_EncodeFailureClean ==
    Clicked("stop") /\ last.handler = "stop" /\ last.exc # "none" =>
        /\ last.put_calls = <<>>
        /\ FramesOf(session_state) = <<>>
        /\ ~Processing(session_state)

\* C20 (as claimed): the page shows Start only when the transport plays and
\* the flag is False, Stop whenever the flag is True, and New Recording in
\* every state, so that some button is always there.
C20_ControlsEnabled ==
    /\ "start" \in page => playing /\ ~session_state["recording"]
    /\ session_state["recording"] => "stop" \in page
    /\ "reset" \in page
    /\ page # {}

\* The latest step ran lines 125-142 and put_object raised.
UploadFailed ==
    /\ last.op = "flush"
    /\ last.put_calls # <<>>
    /\ last.put_calls[1].raised # "none"

\* The session state a failed upload leaves: Processing, a payload recorded,
\* the flag False.
AfterFailedUpload(ss) ==
    /\ Has(ss, "status")
    /\ Processing(ss)
    /\ ss["recorded_video"] # None
    /\ ~ss["recording"]

FailureClass(msg) ==
    CASE msg = MsgCredentials -> "credentials-invalid"
      [] msg = MsgS3Error -> "storage-permission/bucket-error"
      [] msg = MsgUploadFailed -> "unknown"
      [] OTHER -> "none"

Reformattable(fs) == LET IsOk(f) == f.ok IN SelectSeq(fs, IsOk)

ArrivalOrder(fs, n) == \A i \in 1..Len(fs) : fs[i].id = n - Len(fs) + i

\* While a session records, its buffer holds every frame delivered since the
\* start, in arrival order.
BufferInOrder ==
    Recording(session_state) => ArrivalOrder(FramesOf(session_state), delivered)

\* C17 (as claimed): the buffer an accepted stop finds holds the frames in
\* arrival order, and the flush feeds exactly these frames to the encoder in
\* that order.
C17_OrderPreserved ==
    /\ BufferInOrder
    /\ Clicked("stop") /\ last.handler = "stop" =>
            /\ \E n \in 0..MaxFrames : ArrivalOrder(FramesOf(last.before), n)
            /\ last.encoded = FramesOf(last.before)

\* C11 (as claimed): under every interleaving of the callback with the
\* handlers, a frame is appended to the buffer only while the recording flag
\* is True and the status is "Recording": never after a stop or a reset has
\* taken effect.
C11_NoLateFrame ==
    last.op = "append" =>
        /\ Has(last.before, "recording") /\ last.before["recording"]
        /\ Has(last.before, "status") /\ Recording(last.before)

\* C18 (as claimed): an accepted start leaves an empty buffer and a start
\* time no older than the one before, and while a session records, every
\* frame of its buffer was captured at or after the session's start time.
C18_FreshSession ==
    /\ Clicked("start") /\ last.handler = "start" =>
            /\ FramesOf(last.after) = <<>>
            /\ last.after["start_time"] # None
            /\ last.before["start_time"] # None =>
                    last.after["start_time"][1] >= last.before["start_time"][1]
    /\ /\ Has(session_state, "status") /\ Recording(session_state)
       /\ Has(session_state, "start_time") /\ session_state["start_time"] # None
       => \A i \in 1..Len(FramesOf(session_state)) :
                FramesOf(session_state)[i].t >= session_state["start_time"][1]

====
